---- MODULE Spec2Model ----
(***************************************************************************)
(* Model of package wireread: SafeReader (safe_reader.go) and FastReader   *)
(* (reader.go), two cursor-based decoders over one caller-supplied byte    *)
(* slice.  A decode pass drives a SafeReader alone, a FastReader alone, or *)
(* both in lock step with the same sequence of calls on the same buffer,   *)
(* so that their results can be compared call by call; the lock-step pass  *)
(* goes on for as long as every SafeReader call has succeeded.  A call     *)
(* that panics ends the pass of that reader: the reader keeps the state it *)
(* had when the panic was raised and takes no further calls.               *)
(* Where a claim is about a sequence of calls, log records the calls made  *)
(* since construction; elsewhere it is switched off.                       *)
(*                                                                         *)
(* Go index i of a slice is element i+1 of the TLA+ sequence.  Strings and *)
(* byte slices are sequences of bytes.  Unsigned integers wider than a     *)
(* byte are sequences of 16-bit limbs, least significant limb first        *)
(* (uint16: 1 limb, uint32: 2 limbs, uint64: 4 limbs); a byte is a         *)
(* one-element sequence.                                                   *)
(***************************************************************************)
EXTENDS Integers, Sequences, FiniteSets, TLC

VARIABLES sr, fr, driven, panicked, last, safeAllOk, log

vars == <<sr, fr, driven, panicked, last, safeAllOk, log>>

(* ------------------------------ bounds -------------------------------- *)

\* longest buffer whose bytes are all chosen freely
MaxHead == 1
\* length of the repeated-byte run of a long buffer
MaxPad == 10
\* longest payload after the marker byte of a length-encoded integer
MaxPayload == 8
\* largest |n| passed to ReadBytes, Skip, ReadString, ReadStringInto
MaxN == 2
\* bytes of the backing array beyond len(data) (cap(data) - len(data))
MaxSpare == 1
\* longest recorded sequence of calls
MaxLog == 4
\* how far below 0 / beyond len(data) a cursor is followed; a cursor that
\* leaves this range through a huge argument is recorded and followed no further
MaxStray == 2

\* NUL, LF, a varint continuation byte, the 2-byte LEI marker (CR and
\* letters are met in the buffers of SpecText)
Alphabet == {0, 10, 128, 252}
\* bytes of the repeated run: a plain byte and a varint continuation byte
PadBytes == {1, 128}
\* content of the backing array beyond len(data): 'S'
SpareBytes == {83}

\* the largest and the smallest int.  The model gives int 32 bits, its
\* width on the 32-bit targets of Go; on the 64-bit targets the same sums
\* wrap at 2^63.
MaxInt == 2147483647
MinInt == 0 - MaxInt - 1

\* a + b on int: two's-complement addition, wrapping around on overflow
AddInt(a, b) ==
  IF a > 0 /\ b > MaxInt - a THEN (a + MinInt) + (b + MinInt)
  ELSE IF a < 0 /\ b < MinInt - a THEN (a - MinInt) + (b - MinInt)
  ELSE a + b

\* the arguments n of the calls: small counts of either sign, and the largest int
ArgN == ((0 - MaxN)..MaxN) \cup {MaxInt}

(* ------------------------------ helpers ------------------------------- *)

RECURSIVE Rep(_, _)
Rep(b, k) == IF k <= 0 THEN <<>> ELSE <<b>> \o Rep(b, k - 1)

RECURSIVE SeqsUpTo(_, _)
SeqsUpTo(S, k) ==
  IF k = 0 THEN {<<>>}
  ELSE LET shorter == SeqsUpTo(S, k - 1)
       IN  shorter \cup {Append(s, b) : s \in shorter, b \in S}

\* d[i] is in range
InRange(d, i) == 0 <= i /\ i < Len(d)

\* d[i]
At(d, i) == d[i + 1]

\* d[lo:hi] is a legal slice expression of a slice with capacity c
SliceOk(lo, hi, c) == 0 <= lo /\ lo <= hi /\ hi <= c

\* d[lo:hi]
Slice(d, lo, hi) == SubSeq(d, lo + 1, hi)

\* outcome of one call on one reader
Ok(v, p) ==
  [kind |-> "ok", err |-> "nil", val |-> v, stored |-> FALSE, out |-> <<>>, rpos |-> p]

OkInto(v, p) ==
  [kind |-> "ok", err |-> "nil", val |-> <<>>, stored |-> TRUE, out |-> v, rpos |-> p]

Fail(e, v, p) ==
  [kind |-> "err", err |-> e, val |-> v, stored |-> FALSE, out |-> <<>>, rpos |-> p]

Panic(p) ==
  [kind |-> "panic", err |-> "nil", val |-> <<>>, stored |-> FALSE, out |-> <<>>, rpos |-> p]

NoCall(p) ==
  [kind |-> "none", err |-> "nil", val |-> <<>>, stored |-> FALSE, out |-> <<>>, rpos |-> p]

ErrUnexpectedEOF == "io.ErrUnexpectedEOF"

\* the error of encoding/binary for a varint that does not fit 64 bits
ErrOverflow == "binary: varint overflows a 64-bit integer"

\* encoding/binary.MaxVarintLen64
MaxVarintLen64 == 10

\* cap(r.data): the visible bytes and the rest of the backing array
Cap(r) == Len(r.data) + Len(r.spare)

\* the backing array of r.data
Backing(r) == r.data \o r.spare

\* r.data[p:] is a legal slice expression
RestOk(r, p) == SliceOk(p, Len(r.data), Cap(r))

\* r.data[p:]
Rest(r, p) == Slice(r.data, p, Len(r.data))

\* first index of byte c in s, or -1 (bytes.Index with a one-byte pattern)
RECURSIVE IndexFrom(_, _, _)
IndexFrom(s, c, i) ==
  IF i >= Len(s) THEN 0 - 1
  ELSE IF s[i + 1] = c THEN i
  ELSE IndexFrom(s, c, i + 1)

IndexByte(s, c) == IndexFrom(s, c, 0)

\* a | b on non-negative integers
RECURSIVE BitOr(_, _)
BitOr(a, b) ==
  IF a = 0 THEN b
  ELSE IF b = 0 THEN a
  ELSE (IF a % 2 = 1 \/ b % 2 = 1 THEN 1 ELSE 0) + 2 * BitOr(a \div 2, b \div 2)

RECURSIVE Pow2(_)
Pow2(k) == IF k = 0 THEN 1 ELSE 2 * Pow2(k - 1)

\* uint64(v) << s for a byte v, bits beyond bit 63 dropped
ShlU64(v, s) ==
  LET q == s \div 16
      w == v * Pow2(s % 16)
  IN  [i \in 1..4 |-> IF i = q + 1 THEN w % 65536
                      ELSE IF i = q + 2 THEN w \div 65536
                      ELSE 0]

\* x | y on uint64
OrU64(x, y) == [i \in 1..4 |-> BitOr(x[i], y[i])]

\* conversion of an unsigned integer to a type of k limbs
Widen(v, k) == v \o Rep(0, k - Len(v))

ZeroU16 == <<0>>
ZeroU32 == <<0, 0>>
ZeroU64 == <<0, 0, 0, 0>>

\* encoding/binary byte-order decoders; b holds at least the bytes read
LEUint16(b) == <<b[1] + 256 * b[2]>>
BEUint16(b) == <<b[2] + 256 * b[1]>>
LEUint32(b) == <<b[1] + 256 * b[2], b[3] + 256 * b[4]>>
BEUint32(b) == <<b[4] + 256 * b[3], b[2] + 256 * b[1]>>
LEUint64(b) == <<b[1] + 256 * b[2], b[3] + 256 * b[4], b[5] + 256 * b[6], b[7] + 256 * b[8]>>
BEUint64(b) == <<b[8] + 256 * b[7], b[6] + 256 * b[5], b[4] + 256 * b[3], b[2] + 256 * b[1]>>

\* int16(u), int32(u): the same bits read as two's complement
Int16Of(u) == <<IF u[1] < 32768 THEN u[1] ELSE u[1] - 65536>>
Int32Of(u) == <<IF u[2] < 32768 THEN u[2] * 65536 + u[1] ELSE (u[2] - 65536) * 65536 + u[1]>>

\* make([]byte, n) fails: n is negative, or as large as the address space
AllocFails(n) == n < 0 \/ n >= MaxInt

\* the Into form of a value-returning SafeReader call: store on success
StoreInto(res) ==
  IF res.kind = "panic" THEN res
  ELSE IF res.err # "nil" THEN Fail(res.err, <<>>, res.rpos)
  ELSE OkInto(res.val, res.rpos)


(* ----------------------------- SafeReader ----------------------------- *)

NewSafeReader(data, spare) ==
  [data |-> data, spare |-> spare, size |-> Len(data), rpos |-> 0]

SafeBytes(r) ==
  IF ~RestOk(r, r.rpos) THEN Panic(r.rpos) ELSE Ok(Rest(r, r.rpos), r.rpos)

\* SafeReadBytes with copy(dest, sr.data): the copy ignores the cursor
SafeReadBytesFromStart(r, n) ==
  IF ~RestOk(r, r.rpos) THEN Panic(r.rpos)
  ELSE IF Len(Rest(r, r.rpos)) < n THEN Fail(ErrUnexpectedEOF, <<>>, r.rpos)
  ELSE IF AllocFails(n) THEN Panic(r.rpos)
  ELSE Ok(SubSeq(r.data, 1, n), r.rpos + n)

SafeReadBytes(r, n) ==
  IF ~RestOk(r, r.rpos) THEN Panic(r.rpos)
  ELSE IF Len(Rest(r, r.rpos)) < n THEN Fail(ErrUnexpectedEOF, <<>>, r.rpos)
  ELSE IF AllocFails(n) THEN Panic(r.rpos)
  ELSE Ok(SubSeq(Rest(r, r.rpos), 1, n), r.rpos + n)

SafeReadByte(r) ==
  IF r.rpos + 1 > r.size THEN Fail(ErrUnexpectedEOF, <<0>>, r.rpos)
  ELSE IF ~InRange(r.data, r.rpos) THEN Panic(r.rpos)
  ELSE Ok(<<At(r.data, r.rpos)>>, r.rpos + 1)

SafeSkip(r, n) ==
  IF AddInt(r.rpos, n) > r.size THEN Fail(ErrUnexpectedEOF, <<>>, r.rpos)
  ELSE Ok(<<>>, AddInt(r.rpos, n))

SafeReadString(r, n) ==
  IF n = 0 THEN Ok(<<>>, r.rpos)
  ELSE IF AddInt(r.rpos, n) > r.size THEN Fail(ErrUnexpectedEOF, <<>>, r.rpos)
  ELSE IF ~SliceOk(r.rpos, AddInt(r.rpos, n), Cap(r)) THEN Panic(r.rpos)
  ELSE Ok(Slice(Backing(r), r.rpos, r.rpos + n), r.rpos + n)

SafeReadStringInto(r, n) == StoreInto(SafeReadString(r, n))

\* SafeReadNullTerminatedString leaving the cursor on the terminator
SafeReadNullTerminatedStringOnZero(r) ==
  IF ~RestOk(r, r.rpos) THEN Panic(r.rpos)
  ELSE LET i == IndexByte(Rest(r, r.rpos), 0)
       IN  IF i < 0 THEN Fail(ErrUnexpectedEOF, <<>>, r.rpos)
           ELSE Ok(Slice(r.data, r.rpos, r.rpos + i), r.rpos + i)

SafeReadNullTerminatedString(r) ==
  IF ~RestOk(r, r.rpos) THEN Panic(r.rpos)
  ELSE LET i == IndexByte(Rest(r, r.rpos), 0)
       IN  IF i < 0 THEN Fail(ErrUnexpectedEOF, <<>>, r.rpos)
           ELSE Ok(Slice(r.data, r.rpos, r.rpos + i), r.rpos + i + 1)

\* SafeReadLengthEncodedInteger consuming the 0xFC marker before the length check
SafeReadLengthEncodedIntegerEager(r) ==
  IF ~RestOk(r, r.rpos) THEN Panic(r.rpos)
  ELSE LET data == Rest(r, r.rpos)
       IN  IF Len(data) = 0 THEN Fail(ErrUnexpectedEOF, ZeroU64, r.rpos)
           ELSE CASE data[1] = 251 -> Ok(ZeroU64, r.rpos + 1)
                  [] data[1] = 252 ->
                       IF Len(data) < 3 THEN Fail(ErrUnexpectedEOF, ZeroU64, r.rpos + 1)
                       ELSE Ok(Widen(LEUint16(SubSeq(data, 2, 3)), 4), r.rpos + 2)
                  [] data[1] = 253 ->
                       IF Len(data) < 4 THEN Fail(ErrUnexpectedEOF, ZeroU64, r.rpos)
                       ELSE Ok(<<data[2] + 256 * data[3], data[4], 0, 0>>, r.rpos + 3)
                  [] data[1] = 254 ->
                       IF Len(data) < 9 THEN Fail(ErrUnexpectedEOF, ZeroU64, r.rpos)
                       ELSE Ok(LEUint64(SubSeq(data, 2, 9)), r.rpos + 8)
                  [] OTHER -> Ok(Widen(<<data[1]>>, 4), r.rpos + 1)

SafeReadLengthEncodedInteger(r) ==
  IF ~RestOk(r, r.rpos) THEN Panic(r.rpos)
  ELSE LET data == Rest(r, r.rpos)
       IN  IF Len(data) = 0 THEN Fail(ErrUnexpectedEOF, ZeroU64, r.rpos)
           ELSE CASE data[1] = 251 -> Ok(ZeroU64, r.rpos + 1)
                  [] data[1] = 252 ->
                       IF Len(data) < 3 THEN Fail(ErrUnexpectedEOF, ZeroU64, r.rpos)
                       ELSE Ok(Widen(LEUint16(SubSeq(data, 2, 3)), 4), r.rpos + 2)
                  [] data[1] = 253 ->
                       IF Len(data) < 4 THEN Fail(ErrUnexpectedEOF, ZeroU64, r.rpos)
                       ELSE Ok(<<data[2] + 256 * data[3], data[4], 0, 0>>, r.rpos + 3)
                  [] data[1] = 254 ->
                       IF Len(data) < 9 THEN Fail(ErrUnexpectedEOF, ZeroU64, r.rpos)
                       ELSE Ok(LEUint64(SubSeq(data, 2, 9)), r.rpos + 8)
                  [] OTHER -> Ok(Widen(<<data[1]>>, 4), r.rpos + 1)

\* SafeReadLine returning the line with its carriage return
SafeReadLineKeepsCR(r) ==
  IF ~RestOk(r, r.rpos) THEN Panic(r.rpos)
  ELSE LET begin == r.rpos
           idx == IndexByte(Rest(r, r.rpos), 10)
           end == r.rpos + idx
       IN  IF idx < 0 THEN Fail(ErrUnexpectedEOF, <<>>, r.rpos)
           ELSE Ok(Slice(r.data, begin, end), r.rpos + idx + 1)

SafeReadLine(r) ==
  IF ~RestOk(r, r.rpos) THEN Panic(r.rpos)
  ELSE LET begin == r.rpos
           idx == IndexByte(Rest(r, r.rpos), 10)
           end0 == r.rpos + idx
           end == IF idx > 0 /\ At(r.data, end0 - 1) = 13 THEN end0 - 1 ELSE end0
       IN  IF idx < 0 THEN Fail(ErrUnexpectedEOF, <<>>, r.rpos)
           ELSE Ok(Slice(r.data, begin, end), r.rpos + idx + 1)

SafeReadUint16BE(r) ==
  IF r.rpos + 2 > r.size THEN Fail(ErrUnexpectedEOF, ZeroU16, r.rpos)
  ELSE IF ~RestOk(r, r.rpos) \/ Len(Rest(r, r.rpos)) < 2 THEN Panic(r.rpos)
  ELSE Ok(BEUint16(Rest(r, r.rpos)), r.rpos + 2)

SafeReadUint16BEInto(r) == StoreInto(SafeReadUint16BE(r))

SafeReadInt16BEInto(r) ==
  LET res == SafeReadUint16BE(r)
  IN  IF res.kind = "ok" THEN OkInto(Int16Of(res.val), res.rpos) ELSE StoreInto(res)

SafeReadUint32BE(r) ==
  IF r.rpos + 4 > r.size THEN Fail(ErrUnexpectedEOF, ZeroU32, r.rpos)
  ELSE IF ~RestOk(r, r.rpos) \/ Len(Rest(r, r.rpos)) < 4 THEN Panic(r.rpos)
  ELSE Ok(BEUint32(Rest(r, r.rpos)), r.rpos + 4)

SafeReadUint32BEInto(r) == StoreInto(SafeReadUint32BE(r))

SafeReadInt32BEInto(r) ==
  LET res == SafeReadUint32BE(r)
  IN  IF res.kind = "ok" THEN OkInto(Int32Of(res.val), res.rpos) ELSE StoreInto(res)

\* SafeReadUint64BE decoding the eight bytes in little-endian order
SafeReadUint64BEAsLE(r) ==
  IF r.rpos + 8 > r.size THEN Fail(ErrUnexpectedEOF, ZeroU64, r.rpos)
  ELSE IF ~RestOk(r, r.rpos) \/ Len(Rest(r, r.rpos)) < 8 THEN Panic(r.rpos + 8)
  ELSE Ok(LEUint64(Rest(r, r.rpos)), r.rpos + 8)

SafeReadUint64BE(r) ==
  IF r.rpos + 8 > r.size THEN Fail(ErrUnexpectedEOF, ZeroU64, r.rpos)
  ELSE IF ~RestOk(r, r.rpos) \/ Len(Rest(r, r.rpos)) < 8 THEN Panic(r.rpos + 8)
  ELSE Ok(BEUint64(Rest(r, r.rpos)), r.rpos + 8)

SafeReadUint64BEInto(r) == StoreInto(SafeReadUint64BE(r))

SafeReadUint32LE(r) ==
  IF r.rpos + 4 > r.size THEN Fail(ErrUnexpectedEOF, ZeroU32, r.rpos)
  ELSE IF ~RestOk(r, r.rpos) \/ Len(Rest(r, r.rpos)) < 4 THEN Panic(r.rpos)
  ELSE Ok(LEUint32(Rest(r, r.rpos)), r.rpos + 4)

SafeReadUint32LEInto(r) == StoreInto(SafeReadUint32LE(r))

SafeReadUint16LE(r) ==
  IF r.rpos + 2 > r.size THEN Fail(ErrUnexpectedEOF, ZeroU16, r.rpos)
  ELSE IF ~RestOk(r, r.rpos) \/ Len(Rest(r, r.rpos)) < 2 THEN Panic(r.rpos)
  ELSE Ok(LEUint16(Rest(r, r.rpos)), r.rpos + 2)

SafeReadUint16LEInto(r) == StoreInto(SafeReadUint16LE(r))

SafeReadUint64LE(r) ==
  IF r.rpos + 8 > r.size THEN Fail(ErrUnexpectedEOF, ZeroU64, r.rpos)
  ELSE IF ~RestOk(r, r.rpos) \/ Len(Rest(r, r.rpos)) < 8 THEN Panic(r.rpos + 8)
  ELSE Ok(LEUint64(Rest(r, r.rpos)), r.rpos + 8)

SafeReadUint64LEInto(r) == StoreInto(SafeReadUint64LE(r))

(* ----------------------------- FastReader ----------------------------- *)

NewFastReader(data, spare) ==
  [data |-> data, spare |-> spare, rpos |-> 0]

FastBytes(r) ==
  IF ~RestOk(r, r.rpos) THEN Panic(r.rpos) ELSE Ok(Rest(r, r.rpos), r.rpos)

FastReadBytes(r, n) ==
  IF AllocFails(n) THEN Panic(r.rpos)
  ELSE IF ~RestOk(r, r.rpos) THEN Panic(r.rpos)
  ELSE LET src == Rest(r, r.rpos)
           m == IF Len(src) < n THEN Len(src) ELSE n
       IN  Ok(SubSeq(src, 1, m) \o Rep(0, n - m), r.rpos + n)

FastReadByte(r) ==
  IF ~InRange(r.data, r.rpos) THEN Panic(r.rpos)
  ELSE Ok(<<At(r.data, r.rpos)>>, r.rpos + 1)

FastSkip(r, n) == Ok(<<>>, AddInt(r.rpos, n))

FastReadString(r, n) ==
  IF n = 0 THEN Ok(<<>>, r.rpos)
  ELSE IF ~SliceOk(r.rpos, AddInt(r.rpos, n), Cap(r)) THEN Panic(r.rpos)
  ELSE Ok(Slice(Backing(r), r.rpos, r.rpos + n), r.rpos + n)

\* FastReadStringInto returning early for n = 0 without the store to *out
FastReadStringIntoUnset(r, n) ==
  IF n = 0 THEN Ok(<<>>, r.rpos)
  ELSE IF ~SliceOk(r.rpos, AddInt(r.rpos, n), Cap(r)) THEN Panic(r.rpos)
  ELSE OkInto(Slice(Backing(r), r.rpos, r.rpos + n), r.rpos + n)

FastReadStringInto(r, n) ==
  IF n = 0 THEN OkInto(<<>>, r.rpos)
  ELSE IF ~SliceOk(r.rpos, AddInt(r.rpos, n), Cap(r)) THEN Panic(r.rpos)
  ELSE OkInto(Slice(Backing(r), r.rpos, r.rpos + n), r.rpos + n)

FastReadNullTerminatedString(r) ==
  IF ~RestOk(r, r.rpos) THEN Panic(r.rpos)
  ELSE LET i == IndexByte(Rest(r, r.rpos), 0)
       IN  IF i < 0 THEN Ok(Rest(r, r.rpos), Len(r.data))
           ELSE Ok(Slice(r.data, r.rpos, r.rpos + i), r.rpos + i + 1)

\* FastReadLengthEncodedInteger dropping the third byte of the 3-byte form
FastReadLengthEncodedIntegerShort(r) ==
  IF ~InRange(r.data, r.rpos) THEN Panic(r.rpos)
  ELSE LET b == At(r.data, r.rpos)
           p == r.rpos + 1
       IN  CASE b = 251 -> Ok(ZeroU64, p)
             [] b = 252 ->
                  IF ~RestOk(r, p) \/ Len(Rest(r, p)) < 2 THEN Panic(p)
                  ELSE Ok(Widen(LEUint16(Rest(r, p)), 4), p + 2)
             [] b = 253 ->
                  IF ~(InRange(r.data, p) /\ InRange(r.data, p + 1) /\ InRange(r.data, p + 2))
                  THEN Panic(p)
                  ELSE Ok(<<At(r.data, p) + 256 * At(r.data, p + 1), 0, 0, 0>>,
                          p + 3)
             [] b = 254 ->
                  IF ~RestOk(r, p) \/ Len(Rest(r, p)) < 8 THEN Panic(p)
                  ELSE Ok(LEUint64(Rest(r, p)), p + 8)
             [] OTHER -> Ok(Widen(<<b>>, 4), p)

FastReadLengthEncodedInteger(r) ==
  IF ~InRange(r.data, r.rpos) THEN Panic(r.rpos)
  ELSE LET b == At(r.data, r.rpos)
           p == r.rpos + 1
       IN  CASE b = 251 -> Ok(ZeroU64, p)
             [] b = 252 ->
                  IF ~RestOk(r, p) \/ Len(Rest(r, p)) < 2 THEN Panic(p)
                  ELSE Ok(Widen(LEUint16(Rest(r, p)), 4), p + 2)
             [] b = 253 ->
                  IF ~(InRange(r.data, p) /\ InRange(r.data, p + 1) /\ InRange(r.data, p + 2))
                  THEN Panic(p)
                  ELSE Ok(<<At(r.data, p) + 256 * At(r.data, p + 1), At(r.data, p + 2), 0, 0>>,
                          p + 3)
             [] b = 254 ->
                  IF ~RestOk(r, p) \/ Len(Rest(r, p)) < 8 THEN Panic(p)
                  ELSE Ok(LEUint64(Rest(r, p)), p + 8)
             [] OTHER -> Ok(Widen(<<b>>, 4), p)

\* FastReadLine returning the unterminated rest without moving the cursor
FastReadLineStays(r) ==
  IF ~RestOk(r, r.rpos) THEN Panic(r.rpos)
  ELSE LET begin == r.rpos
           idx == IndexByte(Rest(r, r.rpos), 10)
           end0 == r.rpos + idx
           end == IF idx > 0 /\ At(r.data, end0 - 1) = 13 THEN end0 - 1 ELSE end0
       IN  IF idx < 0 THEN Ok(Rest(r, r.rpos), r.rpos)
           ELSE Ok(Slice(r.data, begin, end), r.rpos + idx + 1)

FastReadLine(r) ==
  IF ~RestOk(r, r.rpos) THEN Panic(r.rpos)
  ELSE LET begin == r.rpos
           idx == IndexByte(Rest(r, r.rpos), 10)
           end0 == r.rpos + idx
           end == IF idx > 0 /\ At(r.data, end0 - 1) = 13 THEN end0 - 1 ELSE end0
       IN  IF idx < 0 THEN Ok(Rest(r, r.rpos), Len(r.data))
           ELSE Ok(Slice(r.data, begin, end), r.rpos + idx + 1)

\* the shape shared by the FastReader fixed-width reads: decode k bytes of
\* data[rpos:] and advance by k
FastFixed(r, k, v) ==
  IF ~RestOk(r, r.rpos) \/ Len(Rest(r, r.rpos)) < k THEN Panic(r.rpos)
  ELSE Ok(v, r.rpos + k)

FastFixedInto(r, k, v) ==
  IF ~RestOk(r, r.rpos) \/ Len(Rest(r, r.rpos)) < k THEN Panic(r.rpos)
  ELSE OkInto(v, r.rpos + k)

FastReadUint16BE(r) == FastFixed(r, 2, BEUint16(Rest(r, r.rpos)))
FastReadUint16BEInto(r) == FastFixedInto(r, 2, BEUint16(Rest(r, r.rpos)))

\* FastReadInt16BEInto storing the unsigned value, without the conversion int16(u)
FastReadInt16BEIntoUnsigned(r) == FastFixedInto(r, 2, BEUint16(Rest(r, r.rpos)))

FastReadInt16BEInto(r) == FastFixedInto(r, 2, Int16Of(BEUint16(Rest(r, r.rpos))))
FastReadUint32BE(r) == FastFixed(r, 4, BEUint32(Rest(r, r.rpos)))
FastReadUint32BEInto(r) == FastFixedInto(r, 4, BEUint32(Rest(r, r.rpos)))
FastReadInt32BEInto(r) == FastFixedInto(r, 4, Int32Of(BEUint32(Rest(r, r.rpos))))
FastReadUint64BE(r) == FastFixed(r, 8, BEUint64(Rest(r, r.rpos)))
FastReadUint64BEInto(r) == FastFixedInto(r, 8, BEUint64(Rest(r, r.rpos)))
FastReadUint16LE(r) == FastFixed(r, 2, LEUint16(Rest(r, r.rpos)))
FastReadUint16LEInto(r) == FastFixedInto(r, 2, LEUint16(Rest(r, r.rpos)))

\* FastReadUint32LE decoding the four bytes in big-endian order
FastReadUint32LEAsBE(r) == FastFixed(r, 4, BEUint32(Rest(r, r.rpos)))

FastReadUint32LE(r) == FastFixed(r, 4, LEUint32(Rest(r, r.rpos)))
FastReadUint32LEInto(r) == FastFixedInto(r, 4, LEUint32(Rest(r, r.rpos)))

\* FastReadUint64LE decoding the eight bytes in big-endian order
FastReadUint64LEAsBE(r) == FastFixed(r, 8, BEUint64(Rest(r, r.rpos)))

FastReadUint64LE(r) == FastFixed(r, 8, LEUint64(Rest(r, r.rpos)))
FastReadUint64LEInto(r) == FastFixedInto(r, 8, LEUint64(Rest(r, r.rpos)))

(* ----------------------------- ReadUvarint ----------------------------- *)

\* r.ReadByte() of the reader handed to binary.ReadUvarint
ReadByteOf(r, safe) == IF safe THEN SafeReadByte(r) ELSE FastReadByte(r)

\* the loop of encoding/binary.ReadUvarint over r as its io.ByteReader
RECURSIVE UvarintLoop(_, _, _, _, _)
UvarintLoop(r, safe, i, x, s) ==
  IF i >= MaxVarintLen64 THEN Fail(ErrOverflow, x, r.rpos)
  ELSE LET b == ReadByteOf(r, safe)
       IN  IF b.kind = "panic" THEN Panic(b.rpos)
           ELSE IF b.kind = "err"
             THEN Fail(IF i > 0 /\ b.err = "io.EOF" THEN ErrUnexpectedEOF ELSE b.err, x, b.rpos)
           ELSE IF b.val[1] < 128
             THEN IF i = MaxVarintLen64 - 1 /\ b.val[1] > 1
                    THEN Fail(ErrOverflow, x, b.rpos)
                    ELSE Ok(OrU64(x, ShlU64(b.val[1], s)), b.rpos)
           ELSE UvarintLoop([r EXCEPT !.rpos = b.rpos], safe, i + 1,
                            OrU64(x, ShlU64(b.val[1] % 128, s)), s + 7)

SafeReadUvarint(r) == UvarintLoop(r, TRUE, 0, ZeroU64, 0)

FastReadUvarint(r) == UvarintLoop(r, FALSE, 0, ZeroU64, 0)

(* ------------------------------ actions ------------------------------- *)

\* short buffers of any content, and long ones: one byte, then a run
Buffers ==
  SeqsUpTo(Alphabet, MaxHead) \cup {<<m>> \o Rep(b, MaxPad) : m \in Alphabet, b \in PadBytes}

\* the capacity beyond len(data) is visible to a FastReader only
Spares(d) == IF d = {"fast"} THEN {Rep(b, k) : b \in SpareBytes, k \in {0, MaxSpare}} ELSE {<<>>}

Passes == {{"safe"}, {"fast"}, {"safe", "fast"}}

Init ==
  \E data \in Buffers, d \in Passes :
    \E spare \in Spares(d) :
      /\ sr = NewSafeReader(data, spare)
      /\ fr = NewFastReader(data, spare)
      /\ driven = d
      /\ panicked = [safe |-> FALSE, fast |-> FALSE]
      /\ last = [op |-> "new", n |-> 0, spre |-> 0, fpre |-> 0,
                 safe |-> NoCall(0), fast |-> NoCall(0)]
      /\ safeAllOk = TRUE
    /\ log = [on |-> FALSE, calls |-> <<>>]

\* the cursor p is in or close to the buffer
Near(p, data) == (0 - MaxStray) <= p /\ p <= Len(data) + MaxStray

\* the cursor p is where a sum with MaxInt leaves it
Far(p, data) == p <= MinInt + Len(data) + MaxStray \/ p >= MaxInt - MaxStray

Followed(p, data) == Near(p, data) \/ Far(p, data)

Takes(who) == who \in driven /\ ~panicked[who]

\* one call of the Reader interface, made on every reader the pass drives
Call(op, n, so, fo) ==
  LET s == IF Takes("safe") THEN so ELSE NoCall(sr.rpos)
      f == IF Takes("fast") THEN fo ELSE NoCall(fr.rpos)
      call == [op |-> op, n |-> n, spre |-> sr.rpos, fpre |-> fr.rpos,
               safe |-> s, fast |-> f]
  IN  /\ Takes("safe") \/ Takes("fast")
      /\ Near(sr.rpos, sr.data) /\ Near(fr.rpos, fr.data)
      /\ log.on => Len(log.calls) < MaxLog
      /\ driven = {"safe", "fast"} => safeAllOk /\ ~panicked.fast
      /\ Followed(s.rpos, sr.data)
      /\ Followed(f.rpos, fr.data)
      /\ sr' = [sr EXCEPT !.rpos = s.rpos]
      /\ fr' = [fr EXCEPT !.rpos = f.rpos]
      /\ panicked' = [safe |-> panicked.safe \/ s.kind = "panic",
                      fast |-> panicked.fast \/ f.kind = "panic"]
      /\ last' = call
      /\ log' = IF log.on THEN [log EXCEPT !.calls = Append(@, call)] ELSE log
      /\ safeAllOk' = (safeAllOk /\ s.kind \in {"ok", "none"})
      /\ UNCHANGED driven

Bytes == Call("Bytes", 0, SafeBytes(sr), FastBytes(fr))

ReadBytes == \E n \in ArgN : Call("ReadBytes", n, SafeReadBytes(sr, n), FastReadBytes(fr, n))

ReadByte == Call("ReadByte", 0, SafeReadByte(sr), FastReadByte(fr))

Skip == \E n \in ArgN : Call("Skip", n, SafeSkip(sr, n), FastSkip(fr, n))

ReadUvarint == Call("ReadUvarint", 0, SafeReadUvarint(sr), FastReadUvarint(fr))

ReadString == \E n \in ArgN : Call("ReadString", n, SafeReadString(sr, n), FastReadString(fr, n))

ReadStringInto ==
  \E n \in ArgN : Call("ReadStringInto", n, SafeReadStringInto(sr, n), FastReadStringInto(fr, n))

ReadNullTerminatedString ==
  Call("ReadNullTerminatedString", 0,
       SafeReadNullTerminatedString(sr), FastReadNullTerminatedString(fr))

ReadLengthEncodedInteger ==
  Call("ReadLengthEncodedInteger", 0,
       SafeReadLengthEncodedInteger(sr), FastReadLengthEncodedInteger(fr))

ReadLine == Call("ReadLine", 0, SafeReadLine(sr), FastReadLine(fr))

ReadUint16BE == Call("ReadUint16BE", 0, SafeReadUint16BE(sr), FastReadUint16BE(fr))

ReadUint16BEInto == Call("ReadUint16BEInto", 0, SafeReadUint16BEInto(sr), FastReadUint16BEInto(fr))

ReadInt16BEInto == Call("ReadInt16BEInto", 0, SafeReadInt16BEInto(sr), FastReadInt16BEInto(fr))

ReadUint32BE == Call("ReadUint32BE", 0, SafeReadUint32BE(sr), FastReadUint32BE(fr))

ReadUint32BEInto == Call("ReadUint32BEInto", 0, SafeReadUint32BEInto(sr), FastReadUint32BEInto(fr))

ReadInt32BEInto == Call("ReadInt32BEInto", 0, SafeReadInt32BEInto(sr), FastReadInt32BEInto(fr))

ReadUint64BE == Call("ReadUint64BE", 0, SafeReadUint64BE(sr), FastReadUint64BE(fr))

ReadUint64BEInto == Call("ReadUint64BEInto", 0, SafeReadUint64BEInto(sr), FastReadUint64BEInto(fr))

ReadUint16LE == Call("ReadUint16LE", 0, SafeReadUint16LE(sr), FastReadUint16LE(fr))

ReadUint16LEInto == Call("ReadUint16LEInto", 0, SafeReadUint16LEInto(sr), FastReadUint16LEInto(fr))

ReadUint32LE == Call("ReadUint32LE", 0, SafeReadUint32LE(sr), FastReadUint32LE(fr))

ReadUint32LEInto == Call("ReadUint32LEInto", 0, SafeReadUint32LEInto(sr), FastReadUint32LEInto(fr))

ReadUint64LE == Call("ReadUint64LE", 0, SafeReadUint64LE(sr), FastReadUint64LE(fr))

ReadUint64LEInto == Call("ReadUint64LEInto", 0, SafeReadUint64LEInto(sr), FastReadUint64LEInto(fr))

Next ==
  \/ Bytes
  \/ ReadBytes
  \/ ReadByte
  \/ Skip
  \/ ReadUvarint
  \/ ReadString
  \/ ReadStringInto
  \/ ReadNullTerminatedString
  \/ ReadLengthEncodedInteger
  \/ ReadLine
  \/ ReadUint16BE
  \/ ReadUint16BEInto
  \/ ReadInt16BEInto
  \/ ReadUint32BE
  \/ ReadUint32BEInto
  \/ ReadInt32BEInto
  \/ ReadUint64BE
  \/ ReadUint64BEInto
  \/ ReadUint16LE
  \/ ReadUint16LEInto
  \/ ReadUint32LE
  \/ ReadUint32LEInto
  \/ ReadUint64LE
  \/ ReadUint64LEInto

Spec == Init /\ [][Next]_vars

(* -------- length-encoded integers over every marker byte value -------- *)

\* the payload bytes 1, 2, 3, ... (all distinct, so that byte order shows)
Ramp == [i \in 1..MaxPayload |-> i]

\* an optional leading byte, a marker byte, and a payload cut at any length
LeiFrames ==
  {pre \o <<m>> \o SubSeq(Ramp, 1, k) : pre \in {<<>>, <<7>>}, m \in 0..255, k \in 0..MaxPayload}

InitLEI ==
  \E data \in LeiFrames, d \in Passes :
    /\ sr = NewSafeReader(data, <<>>)
    /\ fr = NewFastReader(data, <<>>)
    /\ driven = d
    /\ panicked = [safe |-> FALSE, fast |-> FALSE]
    /\ last = [op |-> "new", n |-> 0, spre |-> 0, fpre |-> 0,
               safe |-> NoCall(0), fast |-> NoCall(0)]
    /\ safeAllOk = TRUE
    /\ log = [on |-> FALSE, calls |-> <<>>]

NextLEI ==
  \/ ReadByte
  \/ ReadLengthEncodedInteger

SpecLEI == InitLEI /\ [][NextLEI]_vars

(* ------------------- terminated text: strings and lines ------------------- *)

\* longest text buffer
MaxText == 4

\* the two terminators, the carriage return and a letter
TextBytes == {0, 10, 13, 72}

InitText ==
  \E data \in SeqsUpTo(TextBytes, MaxText), d \in Passes :
    /\ sr = NewSafeReader(data, <<>>)
    /\ fr = NewFastReader(data, <<>>)
    /\ driven = d
    /\ panicked = [safe |-> FALSE, fast |-> FALSE]
    /\ last = [op |-> "new", n |-> 0, spre |-> 0, fpre |-> 0,
               safe |-> NoCall(0), fast |-> NoCall(0)]
    /\ safeAllOk = TRUE
    /\ log = [on |-> FALSE, calls |-> <<>>]

NextText ==
  \/ ReadByte
  \/ ReadNullTerminatedString
  \/ ReadLine

SpecText == InitText /\ [][NextText]_vars

(* ---------------- fixed-width integers in both byte orders ---------------- *)

\* longest run of integer bytes
MaxFixed == 10

\* the largest positive and the smallest negative 16-bit and 32-bit
\* big-endian integers, one after the other: 7F FF FF FF 80 00 00 00 ...
SignEdgeRun ==
  [i \in 1..MaxFixed |-> IF i = 1 THEN 127 ELSE IF i <= 4 THEN 255 ELSE IF i = 5 THEN 128 ELSE 0]

\* rising bytes 1, 2, 3, ... and falling bytes 255, 254, 253, ... (all
\* distinct, so that byte order shows; the falling ones have the sign bit
\* set), and the run of the sign edges
FixedRuns == {[i \in 1..MaxFixed |-> i], [i \in 1..MaxFixed |-> 256 - i], SignEdgeRun}

\* an optional leading byte and a run cut at any length
FixedFrames ==
  {pre \o SubSeq(run, 1, k) : pre \in {<<>>, <<7>>}, run \in FixedRuns, k \in 0..MaxFixed}

InitFixed ==
  \E data \in FixedFrames, d \in Passes :
    /\ sr = NewSafeReader(data, <<>>)
    /\ fr = NewFastReader(data, <<>>)
    /\ driven = d
    /\ panicked = [safe |-> FALSE, fast |-> FALSE]
    /\ last = [op |-> "new", n |-> 0, spre |-> 0, fpre |-> 0,
               safe |-> NoCall(0), fast |-> NoCall(0)]
    /\ safeAllOk = TRUE
    /\ log = [on |-> FALSE, calls |-> <<>>]

NextFixed ==
  \/ ReadByte
  \/ ReadUint16BE
  \/ ReadUint16BEInto
  \/ ReadInt16BEInto
  \/ ReadUint32BE
  \/ ReadUint32BEInto
  \/ ReadInt32BEInto
  \/ ReadUint64BE
  \/ ReadUint64BEInto
  \/ ReadUint16LE
  \/ ReadUint16LEInto
  \/ ReadUint32LE
  \/ ReadUint32LEInto
  \/ ReadUint64LE
  \/ ReadUint64LEInto

SpecFixed == InitFixed /\ [][NextFixed]_vars

(* ------------------- a record of fields read in sequence ------------------- *)

\* binary.BigEndian.PutUint16 and binary.LittleEndian.PutUint32 of a value
\* given as 16-bit limbs
PutUint16BE(v) == <<v[1] \div 256, v[1] % 256>>
PutUint32LE(v) == <<v[1] % 256, v[1] \div 256, v[2] % 256, v[2] \div 256>>

\* the values of the three fields: uint16, uint32, and a string without zero byte
SeqFields ==
  {<<1>>, <<258>>, <<65535>>} \X {<<2, 0>>, <<772, 258>>, <<0, 32768>>}
    \X {<<>>, <<72>>, <<72, 105>>}

\* the buffer consisting of exactly the three fields
SeqFrame(x) == PutUint16BE(x[1]) \o PutUint32LE(x[2]) \o x[3] \o <<0>>

InitSeq ==
  \E x \in SeqFields, d \in Passes :
    /\ sr = NewSafeReader(SeqFrame(x), <<>>)
    /\ fr = NewFastReader(SeqFrame(x), <<>>)
    /\ driven = d
    /\ panicked = [safe |-> FALSE, fast |-> FALSE]
    /\ last = [op |-> "new", n |-> 0, spre |-> 0, fpre |-> 0,
               safe |-> NoCall(0), fast |-> NoCall(0)]
    /\ safeAllOk = TRUE
    /\ log = [on |-> TRUE, calls |-> <<>>]

NextSeq ==
  \/ ReadUint16BE
  \/ ReadUint32LE
  \/ ReadNullTerminatedString
  \/ Bytes

SpecSeq == InitSeq /\ [][NextSeq]_vars

(* ------------------ variable-length integers of every size ------------------ *)

\* longest run of continuation bytes
MaxCont == 10

\* runs of continuation bytes: payload bits all clear, all set, and mixed
ContRuns ==
  {[i \in 1..MaxCont |-> 128], [i \in 1..MaxCont |-> 255], [i \in 1..MaxCont |-> 128 + i]}

\* an optional leading byte, a run cut at any length, and then nothing (cut
\* short) or a final byte with an optional byte behind it
VarintFrames ==
  {pre \o SubSeq(run, 1, k) \o fin :
     pre \in {<<>>, <<7>>}, run \in ContRuns, k \in 0..MaxCont,
     fin \in {<<>>} \cup {<<t>> \o post : t \in {0, 1, 2, 127}, post \in {<<>>, <<5>>}}}

InitVarint ==
  \E data \in VarintFrames, d \in Passes :
    /\ sr = NewSafeReader(data, <<>>)
    /\ fr = NewFastReader(data, <<>>)
    /\ driven = d
    /\ panicked = [safe |-> FALSE, fast |-> FALSE]
    /\ last = [op |-> "new", n |-> 0, spre |-> 0, fpre |-> 0,
               safe |-> NoCall(0), fast |-> NoCall(0)]
    /\ safeAllOk = TRUE
    /\ log = [on |-> FALSE, calls |-> <<>>]

NextVarint ==
  \/ ReadByte
  \/ ReadUvarint

SpecVarint == InitVarint /\ [][NextVarint]_vars

(* ------------- integers laid out as bytes and then read back ------------- *)

\* the 16-bit limbs the values are made of: 0, 0x0102, 0x8000, 0xFFFF
RoundLimbs == {0, 258, 32768, 65535}

\* the values of 16, 32 and 64 bits, as limbs, least significant limb first;
\* 0 and the largest value of each width are among them
RoundValues ==
  {<<a>> : a \in RoundLimbs}
    \cup {<<a, b>> : a \in RoundLimbs, b \in RoundLimbs}
    \cup {<<a, b, c, d>> : a \in RoundLimbs, b \in RoundLimbs, c \in RoundLimbs, d \in RoundLimbs}

\* the bytes of v, least significant byte first
LayOutLE(v) ==
  [i \in 1..(2 * Len(v)) |->
     IF i % 2 = 1 THEN v[(i + 1) \div 2] % 256 ELSE v[i \div 2] \div 256]

\* the bytes of v in the given byte order (BE: most significant byte first)
LayOut(v, order) ==
  IF order = "LE" THEN LayOutLE(v)
  ELSE [i \in 1..(2 * Len(v)) |-> LayOutLE(v)[2 * Len(v) + 1 - i]]

\* an optional leading byte and a value laid out in either byte order
RoundFrames ==
  {pre \o LayOut(v, order) : pre \in {<<>>, <<7>>}, v \in RoundValues, order \in {"BE", "LE"}}

InitRound ==
  \E data \in RoundFrames, d \in Passes :
    /\ sr = NewSafeReader(data, <<>>)
    /\ fr = NewFastReader(data, <<>>)
    /\ driven = d
    /\ panicked = [safe |-> FALSE, fast |-> FALSE]
    /\ last = [op |-> "new", n |-> 0, spre |-> 0, fpre |-> 0,
               safe |-> NoCall(0), fast |-> NoCall(0)]
    /\ safeAllOk = TRUE
    /\ log = [on |-> FALSE, calls |-> <<>>]

NextRound ==
  \/ ReadByte
  \/ ReadUint16BE
  \/ ReadUint32BE
  \/ ReadUint64BE
  \/ ReadUint16LE
  \/ ReadUint32LE
  \/ ReadUint64LE

SpecRound == InitRound /\ [][NextRound]_vars

(* ------------------------------- claims ------------------------------- *)

LEI == "ReadLengthEncodedInteger"

Both == {"safe", "fast"}

\* the reader took the last call (it was driven and had not panicked)
Called(who) == last[who].kind # "none"

\* bytes a length-encoded integer with marker byte b occupies: 1 + width
LeiSpan(b) ==
  CASE b = 252 -> 3
    [] b = 253 -> 4
    [] b = 254 -> 9
    [] OTHER -> 1

\* the complete encoding of a length-encoded integer lies at offset p of d
HoldsLei(d, p) == 0 <= p /\ p < Len(d) /\ Len(d) - p >= LeiSpan(d[p + 1])

\* the value the case table assigns to the encoding at offset p of d
LeiValue(d, p) ==
  CASE d[p + 1] < 251 -> <<d[p + 1], 0, 0, 0>>
    [] d[p + 1] = 251 -> <<0, 0, 0, 0>>
    [] d[p + 1] = 252 -> <<d[p + 2] + 256 * d[p + 3], 0, 0, 0>>
    [] d[p + 1] = 253 -> <<d[p + 2] + 256 * d[p + 3], d[p + 4], 0, 0>>
    [] d[p + 1] = 254 -> <<d[p + 2] + 256 * d[p + 3], d[p + 4] + 256 * d[p + 5],
                           d[p + 6] + 256 * d[p + 7], d[p + 8] + 256 * d[p + 9]>>

\* the n bytes of d from offset p on
NextBytes(d, p, n) == [i \in 1..n |-> d[p + i]]

\* C1: whenever a SafeReader call returns a non-nil error, the cursor after
\* the call equals the cursor before the call.
C1_FailedCallKeepsCursor ==
  last.safe.kind = "err" => sr.rpos = last.spre

\* C2: in every reachable state the SafeReader cursor satisfies
\* 0 <= rpos <= N, whatever integer arguments the calls were given.
C2_CursorWithinBuffer ==
  0 <= sr.rpos /\ sr.rpos <= sr.size

\* C3: for both readers the cursor after a call is greater than or equal
\* to the cursor before it, for every operation and every argument.
C3_CursorNeverMovesBack ==
  sr.rpos >= last.spre /\ fr.rpos >= last.fpre

\* C4: no SafeReader call panics, whatever the buffer, the cursor and the
\* integer argument are.
C4_SafeReaderNeverFaults ==
  last.safe.kind # "panic"

\* C5: every non-nil error returned by a call of either reader is
\* io.ErrUnexpectedEOF.
C5_OnlyInsufficientData ==
  \A who \in Both : last[who].kind = "err" => last[who].err = ErrUnexpectedEOF

\* C6: ReadLengthEncodedInteger of either reader, with the full encoding
\* at the cursor, advances the cursor by 1 for a marker byte <= 0xFB, by 3
\* for 0xFC, by 4 for 0xFD and by 9 for 0xFE.
C6_LeiConsumesWholeEncoding ==
  last.op = LEI =>
    /\ Called("safe") /\ HoldsLei(sr.data, last.spre) /\ sr.data[last.spre + 1] <= 254
         => sr.rpos = last.spre + LeiSpan(sr.data[last.spre + 1])
    /\ Called("fast") /\ HoldsLei(fr.data, last.fpre) /\ fr.data[last.fpre + 1] <= 254
         => fr.rpos = last.fpre + LeiSpan(fr.data[last.fpre + 1])

\* C7: as long as every SafeReader call of a sequence has succeeded, the
\* FastReader driven by the same sequence over the same buffer has returned
\* the same value from each call and stands at the same cursor position.
C7_ModeEquivalence ==
  driven = Both /\ safeAllOk /\ last.op # "new" =>
    /\ last.fast.kind = "ok"
    /\ last.fast.val = last.safe.val
    /\ last.fast.stored = last.safe.stored
    /\ last.fast.out = last.safe.out
    /\ fr.rpos = sr.rpos

\* C8: ReadLengthEncodedInteger of either reader succeeds for every marker
\* byte 0..255 that is followed by enough bytes, and returns the marker
\* itself below 0xFB, 0 for 0xFB, and the little-endian value of the next
\* 2, 3, 8 bytes for 0xFC, 0xFD, 0xFE.
C8_LeiCaseTable ==
  last.op = LEI =>
    /\ Called("safe") /\ HoldsLei(sr.data, last.spre) =>
         /\ last.safe.kind = "ok"
         /\ sr.data[last.spre + 1] <= 254 => last.safe.val = LeiValue(sr.data, last.spre)
    /\ Called("fast") /\ HoldsLei(fr.data, last.fpre) =>
         /\ last.fast.kind = "ok"
         /\ fr.data[last.fpre + 1] <= 254 => last.fast.val = LeiValue(fr.data, last.fpre)

C8_Witness ==
  /\ last.op = LEI
  /\ driven = Both
  /\ last.spre = 0
  /\ sr.data[1] = 254
  /\ last.safe.kind = "ok"
  /\ last.fast.kind = "ok"
  /\ last.safe.val = <<513, 1027, 1541, 2055>>
  /\ last.fast.val = <<513, 1027, 1541, 2055>>

\* C9: SafeReader.ReadLengthEncodedInteger returns io.ErrUnexpectedEOF
\* exactly when no byte remains or fewer than 1 + width bytes remain, and
\* then leaves the cursor where it was (the marker byte is not consumed).
C9_LeiValidatesSpan ==
  last.op = LEI /\ Called("safe") =>
    LET p == last.spre
        short == sr.size - p = 0 \/ sr.size - p < LeiSpan(sr.data[p + 1])
    IN  IF short
          THEN last.safe.kind = "err" /\ last.safe.err = ErrUnexpectedEOF /\ sr.rpos = p
          ELSE last.safe.kind = "ok"

C9_Witness ==
  /\ last.op = LEI
  /\ sr.data = <<252, 1>>
  /\ last.spre = 0
  /\ last.safe.kind = "err"
  /\ sr.rpos = 0

\* the contract of ReadBytes(n) for a count n >= 0, on the last call
ReadBytesContract(n) ==
  /\ Called("safe") /\ 0 <= last.spre /\ last.spre <= sr.size =>
       IF sr.size - last.spre >= n
         THEN /\ last.safe.kind = "ok"
              /\ last.safe.val = NextBytes(sr.data, last.spre, n)
              /\ sr.rpos = last.spre + n
         ELSE /\ last.safe.kind = "err"
              /\ last.safe.err = ErrUnexpectedEOF
              /\ sr.rpos = last.spre
  /\ Called("fast") /\ 0 <= last.fpre /\ Len(fr.data) - last.fpre >= n =>
       /\ last.fast.kind = "ok"
       /\ last.fast.val = NextBytes(fr.data, last.fpre, n)
       /\ fr.rpos = last.fpre + n

\* C10: ReadBytes(n), n a byte count, with at least n unread bytes returns
\* exactly the next n unread bytes and advances the cursor by n in both
\* readers; SafeReader with fewer than n unread bytes returns
\* io.ErrUnexpectedEOF and keeps the cursor.  ReadByte is the case n = 1.
C10_ReadBytes ==
  /\ last.op = "ReadBytes" /\ last.n >= 0 => ReadBytesContract(last.n)
  /\ last.op = "ReadByte" => ReadBytesContract(1)

C10_Witness ==
  /\ last.op = "ReadBytes"
  /\ last.n = 2
  /\ driven = Both
  /\ last.spre = 1
  /\ last.safe.kind = "ok"
  /\ last.fast.kind = "ok"
  /\ last.safe.val = <<128, 128>>
  /\ sr.rpos = 3

\* the byte of d at offset p, as a successful ReadByte leaves it
ByteAt(d, p) == Ok(<<d[p + 1]>>, p + 1)

\* the cursor the reader who had before its last call
Pre(who) == IF who = "safe" THEN last.spre ELSE last.fpre

\* the buffer of the reader who
DataOf(who) == IF who = "safe" THEN sr.data ELSE fr.data

\* a Skip that returned nil produced no output
SkipIsSilent ==
  last'.op = "Skip" =>
    \A who \in Both : last'[who].kind = "ok" => last'[who].val = <<>>

\* SafeReader.Skip(n) with n greater than the number of unread bytes
\* returns io.ErrUnexpectedEOF and leaves the cursor where it was
SkipBeyondFails ==
  (last'.op = "Skip" /\ last'.safe.kind # "none"
     /\ last'.n > sr.size - sr.rpos) =>
    /\ last'.safe.kind = "err"
    /\ last'.safe.err = ErrUnexpectedEOF
    /\ sr'.rpos = sr.rpos

\* a ReadByte right after a Skip(n) that returned nil returns the byte at
\* offset (cursor before the Skip) + n, where the buffer has such a byte
SkipThenReadByte ==
  (last.op = "Skip" /\ last'.op = "ReadByte") =>
    \A who \in Both :
      (last[who].kind = "ok" /\ last'[who].kind # "none"
         /\ last.n <= Len(DataOf(who))
         /\ InRange(DataOf(who), Pre(who) + last.n)) =>
        last'[who] = ByteAt(DataOf(who), Pre(who) + last.n)

\* C11: Skip(n) followed by ReadByte returns the byte at offset
\* (pre-skip position + n), Skip itself produces no output, and
\* SafeReader.Skip(n) with n greater than the number of unread bytes returns
\* insufficient-data and leaves the position unchanged.
C11_Skip ==
  [][SkipIsSilent /\ SkipBeyondFails /\ SkipThenReadByte]_vars

\* the parts of C11 that hold: no output, and the byte at pre-skip + n
C11_SkipWithinBuffer == [][SkipIsSilent /\ SkipThenReadByte]_vars

NTS == "ReadNullTerminatedString"

\* the cursor p is an offset of d or its end
ValidCursor(d, p) == 0 <= p /\ p <= Len(d)

\* the byte c occurs in d at or after offset p
HasByte(d, p, c) == \E j \in p..(Len(d) - 1) : d[j + 1] = c

\* the offset of the first byte c of d at or after offset p
FirstOf(d, p, c) ==
  CHOOSE j \in p..(Len(d) - 1) :
    d[j + 1] = c /\ \A k \in p..(j - 1) : d[k + 1] # c

\* the call of the reader who failed for want of data and did not move
InsufficientData(who) ==
  /\ last[who].kind = "err"
  /\ last[who].err = ErrUnexpectedEOF
  /\ last[who].rpos = Pre(who)

\* C12: ReadNullTerminatedString, in both decoders, when a zero byte exists
\* at or after the cursor, returns exactly the bytes from the cursor up to
\* (not including) the first such zero byte and sets the cursor to one past
\* that zero byte; SafeReader with no zero byte in the unread suffix returns
\* insufficient-data with the cursor unchanged.
C12_NullTerminated ==
  last.op = NTS =>
    /\ \A who \in Both :
         (Called(who) /\ ValidCursor(DataOf(who), Pre(who))
            /\ HasByte(DataOf(who), Pre(who), 0)) =>
           LET z == FirstOf(DataOf(who), Pre(who), 0)
           IN  last[who] = Ok(NextBytes(DataOf(who), Pre(who), z - Pre(who)), z + 1)
    /\ (Called("safe") /\ ValidCursor(sr.data, last.spre)
          /\ ~HasByte(sr.data, last.spre, 0)) =>
         InsufficientData("safe")

\* both readers returned a non-empty string that starts after the start of
\* the buffer and is followed by more than its terminator
C12_Witness ==
  /\ last.op = NTS
  /\ last.safe.kind = "ok" /\ last.fast.kind = "ok"
  /\ last.spre > 0
  /\ Len(last.safe.val) > 0
  /\ sr.rpos < Len(sr.data)

\* the text ReadLine owes at cursor p of d, whose first '\n' is at offset nl
LineAt(d, p, nl) ==
  IF nl > p /\ d[nl] = 13 THEN NextBytes(d, p, nl - 1 - p)
  ELSE NextBytes(d, p, nl - p)

\* C13: ReadLine, in both decoders, when a '\n' exists at or after the
\* cursor, returns the unread bytes before the first '\n', with one '\r'
\* removed only if it immediately precedes that '\n' and lies in the unread
\* region, and sets the cursor to one past the '\n'; SafeReader with no '\n'
\* in the unread suffix returns insufficient-data with the cursor unchanged.
C13_ReadLine ==
  last.op = "ReadLine" =>
    /\ \A who \in Both :
         (Called(who) /\ ValidCursor(DataOf(who), Pre(who))
            /\ HasByte(DataOf(who), Pre(who), 10)) =>
           LET nl == FirstOf(DataOf(who), Pre(who), 10)
           IN  last[who] = Ok(LineAt(DataOf(who), Pre(who), nl), nl + 1)
    /\ (Called("safe") /\ ValidCursor(sr.data, last.spre)
          /\ ~HasByte(sr.data, last.spre, 10)) =>
         InsufficientData("safe")

\* both readers stripped the '\r' of a line that starts after the start of
\* the buffer
C13_Witness ==
  /\ last.op = "ReadLine"
  /\ last.safe.kind = "ok" /\ last.fast.kind = "ok"
  /\ last.spre > 0
  /\ sr.rpos >= last.spre + 2
  /\ sr.data[sr.rpos - 1] = 13
  /\ Len(last.safe.val) = sr.rpos - last.spre - 2

\* a '\n' at the cursor right after a consumed '\r': the empty line
C13_ConsumedCR ==
  /\ last.op = "ReadLine"
  /\ last.safe.kind = "ok" /\ last.fast.kind = "ok"
  /\ last.spre > 0
  /\ sr.data[last.spre] = 13
  /\ sr.rpos = last.spre + 1

\* the terminator the text read op scans for
Terminator(op) == IF op = NTS THEN 0 ELSE 10

\* C14: when the unread suffix contains no terminator (no zero byte for
\* ReadNullTerminatedString, no '\n' for ReadLine), FastReader returns all
\* remaining unread bytes unchanged as the text, sets the cursor to the
\* buffer length and returns no error, whereas SafeReader on the same state
\* returns insufficient-data and does not move.
C14_Unterminated ==
  last.op \in {NTS, "ReadLine"} =>
    /\ (Called("fast") /\ ValidCursor(fr.data, last.fpre)
          /\ ~HasByte(fr.data, last.fpre, Terminator(last.op))) =>
         last.fast = Ok(NextBytes(fr.data, last.fpre, Len(fr.data) - last.fpre),
                        Len(fr.data))
    /\ (Called("safe") /\ ValidCursor(sr.data, last.spre)
          /\ ~HasByte(sr.data, last.spre, Terminator(last.op))) =>
         InsufficientData("safe")

\* on the same state FastReader.ReadLine returned the unterminated rest,
\* which ends in '\r', and SafeReader.ReadLine failed
C14_Witness ==
  /\ last.op = "ReadLine"
  /\ last.safe.kind = "err" /\ last.fast.kind = "ok"
  /\ last.fpre > 0 /\ last.fpre = last.spre
  /\ Len(last.fast.val) > 1
  /\ last.fast.val[Len(last.fast.val)] = 13

\* the value-returning fixed-width reads: width in bytes and byte order
FixedReads ==
  { [op |-> "ReadUint16BE", k |-> 2, order |-> "BE"],
    [op |-> "ReadUint32BE", k |-> 4, order |-> "BE"],
    [op |-> "ReadUint64BE", k |-> 8, order |-> "BE"],
    [op |-> "ReadUint16LE", k |-> 2, order |-> "LE"],
    [op |-> "ReadUint32LE", k |-> 4, order |-> "LE"],
    [op |-> "ReadUint64LE", k |-> 8, order |-> "LE"] }

\* the byte of bs that weighs 256^s (BE: the first byte is the most
\* significant; LE: the first byte is the least significant)
ByteOfWeight(bs, order, s) == IF order = "LE" THEN bs[s + 1] ELSE bs[Len(bs) - s]

\* the unsigned integer formed from the bytes bs in the given byte order,
\* as 16-bit limbs, least significant limb first
UintOf(bs, order) ==
  [j \in 1..(Len(bs) \div 2) |->
     ByteOfWeight(bs, order, 2 * j - 2) + 256 * ByteOfWeight(bs, order, 2 * j - 1)]

\* C15: for width in {16, 32, 64} and order in {BE, LE}, ReadUint<width><order>
\* on a state with at least width/8 unread bytes returns the unsigned integer
\* formed from exactly the next width/8 bytes in that byte order and advances
\* the cursor by exactly width/8; SafeReader with fewer than width/8 unread
\* bytes returns insufficient-data with the cursor unchanged.
C15_FixedWidth ==
  \A f \in FixedReads :
    last.op = f.op =>
      /\ \A who \in Both :
           (Called(who) /\ ValidCursor(DataOf(who), Pre(who))
              /\ Len(DataOf(who)) - Pre(who) >= f.k) =>
             last[who] = Ok(UintOf(NextBytes(DataOf(who), Pre(who), f.k), f.order),
                            Pre(who) + f.k)
      /\ (Called("safe") /\ ValidCursor(sr.data, last.spre)
            /\ Len(sr.data) - last.spre < f.k) =>
           InsufficientData("safe")

\* both readers decoded a big-endian 64-bit integer that starts after the
\* start of the buffer and whose limbs differ
C15_Witness ==
  /\ last.op = "ReadUint64BE"
  /\ last.safe.kind = "ok" /\ last.fast.kind = "ok"
  /\ last.spre > 0
  /\ last.safe.val[1] # last.safe.val[4]

\* the operations of the calls made since construction
LogOps == [i \in 1..Len(log.calls) |-> log.calls[i].op]

\* the reader who took every call made since construction
TookAll(who) == \A i \in 1..Len(log.calls) : log.calls[i][who].kind # "none"

\* the cursor of the reader who
CursorOf(who) == IF who = "safe" THEN sr.rpos ELSE fr.rpos

\* C16: on a buffer consisting of exactly a 2-byte big-endian integer, a
\* 4-byte little-endian integer and a zero-terminated string, calling
\* ReadUint16BE, ReadUint32LE, ReadNullTerminatedString in that order yields
\* the three encoded values, and afterwards the cursor equals the buffer
\* length, i.e. Bytes() is the empty suffix; this holds for both decoders.
C16_SequenceComposition ==
  \A x \in SeqFields, who \in Both :
    (log.on /\ DataOf(who) = SeqFrame(x) /\ TookAll(who)) =>
      /\ LogOps = <<"ReadUint16BE", "ReadUint32LE", NTS>> =>
           /\ log.calls[1][who].kind = "ok" /\ log.calls[1][who].val = x[1]
           /\ log.calls[2][who].kind = "ok" /\ log.calls[2][who].val = x[2]
           /\ log.calls[3][who].kind = "ok" /\ log.calls[3][who].val = x[3]
           /\ CursorOf(who) = Len(DataOf(who))
      /\ LogOps = <<"ReadUint16BE", "ReadUint32LE", NTS, "Bytes">> =>
           /\ log.calls[4][who] = Ok(<<>>, Len(DataOf(who)))

\* both readers read the three fields in order, the string being non-empty,
\* and then found Bytes() empty
C16_Witness ==
  /\ log.on
  /\ LogOps = <<"ReadUint16BE", "ReadUint32LE", NTS, "Bytes">>
  /\ TookAll("safe") /\ TookAll("fast")
  /\ Len(log.calls[3].safe.val) = 2
  /\ log.calls[1].fast.val = <<65535>>
  /\ last.safe.kind = "ok" /\ last.fast.kind = "ok"

\* a byte with the high bit clear occurs in d at or after offset p
HasFinalByte(d, p) == \E j \in p..(Len(d) - 1) : d[j + 1] < 128

\* the offset of the first byte of d at or after offset p with the high bit clear
FirstFinalByte(d, p) ==
  CHOOSE j \in p..(Len(d) - 1) :
    d[j + 1] < 128 /\ \A k \in p..(j - 1) : d[k + 1] >= 128

\* bit k of the sum over i of (bs[i] AND 0x7F) * 128^i (i counted from 0)
VarintBit(bs, k) ==
  IF k \div 7 < Len(bs) THEN (bs[k \div 7 + 1] \div Pow2(k % 7)) % 2 ELSE 0

\* bits k, k+1, ..., k+n-1 of that sum, as a number
RECURSIVE VarintBits(_, _, _)
VarintBits(bs, k, n) ==
  IF n = 0 THEN 0 ELSE VarintBit(bs, k) + 2 * VarintBits(bs, k + 1, n - 1)

\* the sum as a uint64
VarintValue(bs) == [m \in 1..4 |-> VarintBits(bs, 16 * (m - 1), 16)]

\* the sum is less than 2^64
FitsU64(bs) == \A k \in 64..(7 * Len(bs)) : VarintBit(bs, k) = 0

\* the bytes of d from offset p through the first one with the high bit clear
VarintAt(d, p) == NextBytes(d, p, FirstFinalByte(d, p) - p + 1)

\* ReadUvarint of the reader who returned the sum of the encoding at its
\* cursor and consumed the encoding
DecodedVarint(who) ==
  last[who] = Ok(VarintValue(VarintAt(DataOf(who), Pre(who))),
                 FirstFinalByte(DataOf(who), Pre(who)) + 1)

\* C17: ReadUvarint, in both decoders, decodes a base-128 unsigned integer
\* from the cursor: the result is the sum over consumed bytes i of
\* (byte_i AND 0x7F) * 128^i, the consumed bytes are exactly those from the
\* cursor through the first byte whose high bit is clear, and the cursor
\* advances by that count (wherever such a byte exists and the sum is a
\* 64-bit value).
C17_Uvarint ==
  last.op = "ReadUvarint" =>
    \A who \in Both :
      (Called(who) /\ ValidCursor(DataOf(who), Pre(who))
         /\ HasFinalByte(DataOf(who), Pre(who))
         /\ FitsU64(VarintAt(DataOf(who), Pre(who)))) =>
        DecodedVarint(who)

\* the part of C17 that holds: encodings of at most MaxVarintLen64 bytes
C17_UvarintOfTenBytes ==
  last.op = "ReadUvarint" =>
    \A who \in Both :
      (Called(who) /\ ValidCursor(DataOf(who), Pre(who))
         /\ HasFinalByte(DataOf(who), Pre(who))
         /\ Len(VarintAt(DataOf(who), Pre(who))) <= MaxVarintLen64
         /\ FitsU64(VarintAt(DataOf(who), Pre(who)))) =>
        DecodedVarint(who)

\* both readers decoded a ten-byte encoding with bit 63 set that starts
\* after the start of the buffer
C17_TenBytesDecoded ==
  /\ last.op = "ReadUvarint"
  /\ last.safe.kind = "ok" /\ last.fast.kind = "ok"
  /\ last.spre > 0
  /\ sr.rpos = last.spre + MaxVarintLen64
  /\ last.safe.val[4] >= 32768
  /\ last.safe.val[1] # 65535

\* the width in bytes of the fixed-width reads, Into forms included
FixedWidth ==
  [op \in {"ReadUint16BE", "ReadUint16BEInto", "ReadInt16BEInto",
           "ReadUint16LE", "ReadUint16LEInto"} |-> 2]
  @@ [op \in {"ReadUint32BE", "ReadUint32BEInto", "ReadInt32BEInto",
              "ReadUint32LE", "ReadUint32LEInto"} |-> 4]
  @@ [op \in {"ReadUint64BE", "ReadUint64BEInto",
              "ReadUint64LE", "ReadUint64LEInto"} |-> 8]

\* the reads that need a known number of bytes
CountedReads == {"ReadByte", "ReadBytes", "ReadString", LEI} \cup DOMAIN FixedWidth

\* the number of bytes the read op with argument n needs at offset p of d
Needs(op, n, d, p) ==
  CASE op = "ReadByte" -> 1
    [] op \in {"ReadBytes", "ReadString"} -> n
    [] op = LEI -> IF p < Len(d) THEN LeiSpan(d[p + 1]) ELSE 1
    [] OTHER -> FixedWidth[op]

\* the last call was a FastReader read of one of the ops that found fewer
\* unread bytes than it needs
FastReadShort(ops) ==
  /\ last.op \in ops
  /\ Called("fast")
  /\ ValidCursor(fr.data, last.fpre)
  /\ Len(fr.data) - last.fpre < Needs(last.op, last.n, fr.data, last.fpre)

\* the last FastReader call panicked with the cursor within the buffer
FastFaulted == last.fast.kind = "panic" /\ fr.rpos <= Len(fr.data)

\* C18: for every FastReader read that needs k bytes (ReadByte, ReadBytes(n),
\* ReadString(n), every fixed-width read, ReadLengthEncodedInteger), if
\* fewer than k unread bytes remain the call panics and does not return a
\* value or advance the cursor past the buffer end.
C18_FastReaderFaults == FastReadShort(CountedReads) => FastFaulted

\* the part of C18 that holds: every counted read but ReadBytes and ReadString
C18_IndexedReadsFault ==
  FastReadShort(CountedReads \ {"ReadBytes", "ReadString"}) => FastFaulted

\* ReadString of more than the unread bytes panics where the buffer has no
\* capacity beyond its length
C18_ReadStringAtCapacity ==
  (FastReadShort({"ReadString"}) /\ fr.spare = <<>>) => FastFaulted

\* ReadString(n) with 0 < n <= unread bytes returns the next n bytes and
\* advances by n, in both readers
ReadStringReads ==
  \A who \in Both :
    (Called(who) /\ ValidCursor(DataOf(who), Pre(who))
       /\ 0 < last.n /\ last.n <= Len(DataOf(who)) - Pre(who)) =>
      last[who] = Ok(NextBytes(DataOf(who), Pre(who), last.n), Pre(who) + last.n)

\* ReadString(0) returns the empty text and does not move, wherever the cursor is
ReadStringOfNothing ==
  \A who \in Both :
    (Called(who) /\ last.n = 0) => last[who] = Ok(<<>>, Pre(who))

\* SafeReader.ReadString(n) with lo <= n <= hi and n greater than the number
\* of unread bytes returns io.ErrUnexpectedEOF and does not move
ReadStringBeyondFails(lo, hi) ==
  (Called("safe") /\ ValidCursor(sr.data, last.spre)
     /\ lo <= last.n /\ last.n <= hi
     /\ last.n > Len(sr.data) - last.spre) =>
    InsufficientData("safe")

\* C19: ReadString(n) returns the next n unread bytes as text and advances
\* by n; for n = 0 it returns the empty text with no error and no cursor
\* movement in every state; SafeReader.ReadString(n) with more than the
\* remaining bytes requested returns insufficient-data with the cursor
\* unchanged.
C19_ReadString ==
  last.op = "ReadString" =>
    ReadStringReads /\ ReadStringOfNothing /\ ReadStringBeyondFails(1, MaxInt)

\* the part of C19 that holds: requests that do not make rpos+n wrap around
C19_ReadStringOfSmallCounts ==
  last.op = "ReadString" =>
    ReadStringReads /\ ReadStringOfNothing /\ ReadStringBeyondFails(1, MaxN)

\* the Into operations that have a value-returning form of the same type
IntoOps ==
  {"ReadStringInto", "ReadUint16BEInto", "ReadUint32BEInto", "ReadUint64BEInto",
   "ReadUint16LEInto", "ReadUint32LEInto", "ReadUint64LEInto"}

\* the outcome of the value-returning form of the Into operation op with
\* argument n, on the SafeReader s
SafeValueForm(op, n, s) ==
  CASE op = "ReadStringInto" -> SafeReadString(s, n)
    [] op = "ReadUint16BEInto" -> SafeReadUint16BE(s)
    [] op = "ReadUint32BEInto" -> SafeReadUint32BE(s)
    [] op = "ReadUint64BEInto" -> SafeReadUint64BE(s)
    [] op = "ReadUint16LEInto" -> SafeReadUint16LE(s)
    [] op = "ReadUint32LEInto" -> SafeReadUint32LE(s)
    [] op = "ReadUint64LEInto" -> SafeReadUint64LE(s)

\* the same on the FastReader f
FastValueForm(op, n, f) ==
  CASE op = "ReadStringInto" -> FastReadString(f, n)
    [] op = "ReadUint16BEInto" -> FastReadUint16BE(f)
    [] op = "ReadUint32BEInto" -> FastReadUint32BE(f)
    [] op = "ReadUint64BEInto" -> FastReadUint64BE(f)
    [] op = "ReadUint16LEInto" -> FastReadUint16LE(f)
    [] op = "ReadUint32LEInto" -> FastReadUint32LE(f)
    [] op = "ReadUint64LEInto" -> FastReadUint64LE(f)

\* the outcome of the value-returning form started where the last call of
\* the reader who started
ValueForm(who) ==
  IF who = "safe"
    THEN SafeValueForm(last.op, last.n, [sr EXCEPT !.rpos = last.spre])
    ELSE FastValueForm(last.op, last.n, [fr EXCEPT !.rpos = last.fpre])

\* C20: for each Into operation (ReadStringInto, ReadUint16BEInto,
\* ReadUint32BEInto, ReadUint64BEInto, ReadUint16LEInto, ReadUint32LEInto,
\* ReadUint64LEInto) of both decoders, started from the same buffer and
\* cursor as the corresponding value-returning operation, the value stored
\* in *out equals the value returned, the error is the same, and the
\* resulting cursor is the same; on a SafeReader failure *out is left
\* unmodified.
C20_IntoFollowsValueForm ==
  last.op \in IntoOps =>
    \A who \in Both :
      Called(who) =>
        /\ last[who].kind = ValueForm(who).kind
        /\ last[who].err = ValueForm(who).err
        /\ last[who].rpos = ValueForm(who).rpos
        /\ last[who].stored = (ValueForm(who).kind = "ok")
        /\ last[who].stored => last[who].out = ValueForm(who).val
        /\ (who = "safe" /\ last[who].kind = "err") => ~last[who].stored

\* both readers stored a string of two different bytes and stopped before
\* the end of the buffer
C20_Witness ==
  /\ last.op = "ReadStringInto"
  /\ last.safe.stored /\ last.fast.stored
  /\ Len(last.fast.out) = 2
  /\ last.fast.out[1] # last.fast.out[2]
  /\ last.safe.out = last.fast.out
  /\ sr.rpos < Len(sr.data)

\* SafeReader failed an Into read of a 32-bit integer and left *out alone
C20_FailureLeavesOut ==
  /\ last.op = "ReadUint32LEInto"
  /\ last.safe.kind = "err"
  /\ last.spre > 0
  /\ ~last.safe.stored

\* the signed Into reads
SignedOps == {"ReadInt16BEInto", "ReadInt32BEInto"}

\* the outcome of the unsigned read of the same width (ReadUint16BE for
\* ReadInt16BEInto, ReadUint32BE for ReadInt32BEInto) started where the last
\* call of the reader who started
UnsignedForm(who) ==
  IF who = "safe"
    THEN LET s == [sr EXCEPT !.rpos = last.spre]
         IN  IF last.op = "ReadInt16BEInto" THEN SafeReadUint16BE(s) ELSE SafeReadUint32BE(s)
    ELSE LET f == [fr EXCEPT !.rpos = last.fpre]
         IN  IF last.op = "ReadInt16BEInto" THEN FastReadUint16BE(f) ELSE FastReadUint32BE(f)

\* u read as two's complement: u if the sign bit is clear, u - 2^16 (one
\* limb) or u - 2^32 (two limbs) otherwise, written as -(2^w - 1 - u) - 1
TwosComplement(u) ==
  IF Len(u) = 1
    THEN <<IF u[1] < 32768 THEN u[1] ELSE 0 - (65535 - u[1]) - 1>>
    ELSE <<IF u[2] < 32768 THEN u[2] * 65536 + u[1]
           ELSE 0 - ((65535 - u[2]) * 65536 + (65535 - u[1])) - 1>>

\* C21: ReadInt16BEInto stores u if u < 2^15 and u - 2^16 otherwise,
\* ReadInt32BEInto stores u if u < 2^31 and u - 2^32 otherwise, where u is
\* the value ReadUint16BE / ReadUint32BE returns from the same state; the
\* cursor advance (2 / 4) and the failure condition are identical to the
\* unsigned read.
C21_SignedReads ==
  last.op \in SignedOps =>
    \A who \in Both :
      Called(who) =>
        /\ last[who].kind = UnsignedForm(who).kind
        /\ last[who].err = UnsignedForm(who).err
        /\ last[who].rpos = UnsignedForm(who).rpos
        /\ last[who].stored = (UnsignedForm(who).kind = "ok")
        /\ last[who].stored =>
             /\ last[who].out = TwosComplement(UnsignedForm(who).val)
             /\ last[who].rpos = Pre(who) + (IF last.op = "ReadInt16BEInto" THEN 2 ELSE 4)

\* both readers stored the smallest 32-bit integer, -2^31, read after the
\* start of the buffer
C21_Witness ==
  /\ last.op = "ReadInt32BEInto"
  /\ last.safe.stored /\ last.fast.stored
  /\ last.spre > 0
  /\ last.safe.out = <<MinInt>>
  /\ last.fast.out = <<MinInt>>

\* both readers stored the largest 16-bit integer, 2^15 - 1
C21_LargestInt16 ==
  /\ last.op = "ReadInt16BEInto"
  /\ last.safe.stored /\ last.fast.stored
  /\ last.safe.out = <<32767>>
  /\ last.fast.out = <<32767>>

\* both readers stored a negative 16-bit integer
C21_NegativeInt16 ==
  /\ last.op = "ReadInt16BEInto"
  /\ last.safe.stored /\ last.fast.stored
  /\ last.safe.out[1] < 0
  /\ last.fast.out = last.safe.out

\* the last call of the reader who was the read f, made where the value v,
\* laid out in the byte order of f behind the leading bytes pre, begins
ReadBack(who, f, pre, v) ==
  /\ last.op = f.op
  /\ Called(who)
  /\ 2 * Len(v) = f.k
  /\ DataOf(who) = pre \o LayOut(v, f.order)
  /\ Pre(who) = Len(pre)

\* the values of RoundValues that take k bytes
ValuesOfWidth(k) == {v \in RoundValues : 2 * Len(v) = k}

\* C22: for every width in {16, 32, 64}, order in {BE, LE} and value v in
\* [0, 2^width - 1] (including 0 and 2^width - 1), laying v out as width/8
\* bytes in that byte order and then decoding the buffer with the matching
\* ReadUint<width><order> returns v, for both decoders.
C22_RoundTrip ==
  \A f \in FixedReads :
    last.op = f.op =>
      \A who \in Both, pre \in {<<>>, <<7>>} :
        (Called(who) /\ Pre(who) = Len(pre) /\ Len(DataOf(who)) = Len(pre) + f.k) =>
          \A v \in ValuesOfWidth(f.k) :
            ReadBack(who, f, pre, v) => last[who] = Ok(v, Len(pre) + f.k)

\* both readers read back a 64-bit value of four different limbs, laid out
\* in little-endian order behind a leading byte
C22_Witness ==
  /\ ReadBack("safe", [op |-> "ReadUint64LE", k |-> 8, order |-> "LE"],
              <<7>>, <<258, 0, 32768, 65535>>)
  /\ ReadBack("fast", [op |-> "ReadUint64LE", k |-> 8, order |-> "LE"],
              <<7>>, <<258, 0, 32768, 65535>>)
  /\ last.safe.kind = "ok" /\ last.fast.kind = "ok"

\* both readers read back the largest 64-bit value, 2^64 - 1, in big-endian order
C22_LargestUint64 ==
  /\ ReadBack("safe", [op |-> "ReadUint64BE", k |-> 8, order |-> "BE"],
              <<>>, <<65535, 65535, 65535, 65535>>)
  /\ ReadBack("fast", [op |-> "ReadUint64BE", k |-> 8, order |-> "BE"],
              <<>>, <<65535, 65535, 65535, 65535>>)
  /\ last.safe.kind = "ok" /\ last.fast.kind = "ok"

\* both readers read back the 16-bit value 0 in big-endian order
C22_ZeroUint16 ==
  /\ ReadBack("safe", [op |-> "ReadUint16BE", k |-> 2, order |-> "BE"], <<>>, <<0>>)
  /\ ReadBack("fast", [op |-> "ReadUint16BE", k |-> 2, order |-> "BE"], <<>>, <<0>>)
  /\ last.safe.kind = "ok" /\ last.fast.kind = "ok"

\* the last call was SafeReader's op in ops with an argument n, lo <= n <= hi,
\* greater than the number of unread bytes, made at a cursor p > 0 of the buffer
SafeAsksTooMuch(ops, lo, hi) ==
  /\ last.op \in ops
  /\ Called("safe")
  /\ 0 < last.spre /\ last.spre <= Len(sr.data)
  /\ lo <= last.n /\ last.n <= hi
  /\ last.n > Len(sr.data) - last.spre

\* the outcome of SafeReader.ReadBytes(n) started where the last call started
ReadBytesThere == SafeReadBytes([sr EXCEPT !.rpos = last.spre], last.n)

\* the last SafeReader call ended as ReadBytes(n) does from the same state
AgreesWithReadBytes ==
  /\ last.safe.kind = ReadBytesThere.kind
  /\ last.safe.err = ReadBytesThere.err
  /\ last.safe.rpos = ReadBytesThere.rpos

\* C23: with the cursor at any position p > 0, SafeReader's Skip(n) and
\* ReadString(n) return insufficient-data with the cursor unchanged for
\* every n greater than the remaining length, including n so large that
\* p + n wraps around; they agree with ReadBytes(n), whose check compares n
\* against the remaining length without adding.
C23_LengthChecksSound ==
  SafeAsksTooMuch({"Skip", "ReadString"}, 1, MaxInt) =>
    InsufficientData("safe") /\ AgreesWithReadBytes

\* the part of C23 that holds: arguments that do not make p + n wrap around
C23_SoundWithoutWrap ==
  SafeAsksTooMuch({"Skip", "ReadString"}, 1, MaxN) =>
    InsufficientData("safe") /\ AgreesWithReadBytes

\* the check of ReadBytes, which does not add, is sound for every n
C23_ReadBytesSound ==
  SafeAsksTooMuch({"ReadBytes"}, 1, MaxInt) => InsufficientData("safe")

\* SafeReader.ReadBytes(MaxInt) failed at a cursor p > 0
C23_ReadBytesOfMaxInt ==
  /\ SafeAsksTooMuch({"ReadBytes"}, MaxInt, MaxInt)
  /\ last.safe.kind = "err"

====
